---- MODULE Spec2Model ----
(***************************************************************************)
(* A model of streamlit_app.py: a role-gated inventory tracker.  The       *)
(* SQLite tables (assets, categories, locations, users) are shared by all  *)
(* browser sessions; every session has its own st.session_state.  One      *)
(* action is one run of the script for one session, with the widget values *)
(* of that run (page chosen, texts typed, button pressed) as its inputs.   *)
(* Every statement the code sends to SQLite is a single INSERT, UPDATE or  *)
(* DELETE followed by commit, which SQLite applies atomically.             *)
(***************************************************************************)
EXTENDS Integers, Sequences, FiniteSets, TLC

(* ------------------------------ bounds --------------------------------- *)

\* Rows the assets table may hold before "Save Asset" is no longer explored.
MaxAssets == 1

\* Largest value typed into a quantity number_input.
MaxQty == 1

\* Number of browser sessions.
NumSessions == 2

Sessions == 1..NumSessions

\* The quantity at or below which the low-stock report lists an asset.
LowStockThreshold == 5

\* The stored rows of the ledgers the Dashboard and the Reports are run on.
MaxReportAssets == 2

\* How far above the low-stock threshold the quantities of those rows go.
ReportSpan == 1

(* ------------------------- widget input domains ------------------------ *)

\* Python's None (session_state defaults, an empty selectbox's value).
None == "<None>"

\* st.text_input("Asset Name"): free text, the empty string included.
AssetNames == {"", "Laptop-01"}

\* st.text_input("Serial Number")
Serials == {"SN123"}

\* str(st.date_input("Purchase Date"))
Dates == {"2024-01-01"}

\* st.text_input("New Category Name") / ("New Name")
CategoryInputs == {"", "IT Equipment", "Furniture"}

\* st.text_input("New Location Name") / ("New Name")
LocationInputs == {"", "Warehouse 1", "Office"}

\* st.text_input("Username") of the login sidebar and of the user form
UsernameInputs == {"admin", "bob"}

\* st.text_input("Password")
PasswordInputs == {"password123", "letmein", ""}

\* st.number_input(..., min_value=0)
Quantities == 0..MaxQty

\* Quantities of stored rows on both sides of the low-stock threshold.
ReportQuantities ==
    {0} \cup (LowStockThreshold..(LowStockThreshold + ReportSpan))

\* st.text_input("Search (Name/Serial/Category)")
SearchInputs == {"", "laptop", "it"}

\* The options of st.multiselect("Filter by Status", ...)
StatusOptions == {"In Stock", "Out of Stock"}

\* The options of st.radio("Type", ...)
ReportTypes == {"Location Report", "Low Stock Alert (<= 5)"}

\* st.selectbox("Role", ["Admin", "Manager", "Viewer"])
Roles == {"Admin", "Manager", "Viewer"}

(* ------------------------------- state --------------------------------- *)

VARIABLES
    assets,           \* table assets: rows in rowid order
    sqlite_sequence,  \* AUTOINCREMENT counter of assets.id
    categories,       \* table categories(name PRIMARY KEY): rows in rowid order
    locations,        \* table locations(name PRIMARY KEY): rows in rowid order
    users,            \* table users(username PRIMARY KEY, password, role)
    logged_in,        \* st.session_state['logged_in'] of each session
    role,             \* st.session_state['role'] of each session
    username,         \* st.session_state['username'] of each session
    shown,            \* the feedback call (st.error, st.success, st.toast,
                      \* st.warning) of the latest script run, and whose run
    run,              \* each session's script run in progress, where a
                      \* handler is followed one SQL statement at a time
    rendered          \* what the latest Dashboard or Reports run put on the
                      \* page: the rows passed to st.dataframe and the file
                      \* name of the download button

session == <<logged_in, role, username>>
page == <<run, rendered>>
vars == <<assets, sqlite_sequence, categories, locations, users,
          logged_in, role, username, shown, run, rendered>>

(* ------------------------------ helpers -------------------------------- *)

Range(seq) == {seq[i] : i \in 1..Len(seq)}

\* [row[0] for row in conn.execute('SELECT name FROM <table>').fetchall()]
NameList(table) == table

\* hashlib.sha256(str.encode(password)).hexdigest()
make_hashes(password) ==
    CASE password = "password123" ->
            "ef92b778bafe771e89245b89ecbc08a44a4e166c06659911881f383d4473e94f"
      [] password = "letmein" ->
            "1c8bfe8f801d79745c4631d09fff36c82aa37fc4cce4fc946683d7b336b63032"
      [] password = "" ->
            "e3b0c44298fc1c149afbf4c8996fb92427ae41e4649b934ca495991b7852b855"

\* Mutant: the digest is tested for truthiness instead of being compared.
check_hashes_Truthy(password, hashed_text) ==
    make_hashes(password) # ""

\* check_hashes returns the (truthy) stored digest on a match, else False.
check_hashes(password, hashed_text) ==
    make_hashes(password) = hashed_text

\* A plain INSERT of a row into a table whose key column must stay unique:
\* TRUE when the PRIMARY KEY constraint lets the row in.
KeyFree(table, key) == \A i \in 1..Len(table) : table[i] # key

\* Mutant: a plain INSERT that no constraint stops.
InsertOrIgnore_Plain(table, name) ==
    Append(table, name)

\* INSERT OR IGNORE INTO <table> VALUES (name)
InsertOrIgnore(table, name) ==
    IF KeyFree(table, name) THEN Append(table, name) ELSE table

\* Mutant: an UPDATE with the WHERE clause lost.
UpdateName_All(table, new, old) ==
    [i \in 1..Len(table) |-> new]

\* UPDATE <table> SET name=new WHERE name=old  (constraint already checked)
UpdateName(table, new, old) ==
    [i \in 1..Len(table) |-> IF table[i] = old THEN new ELSE table[i]]

\* Mutant: DELETE FROM <table> with the WHERE clause lost.
DeleteName_All(table, name) ==
    <<>>

\* DELETE FROM <table> WHERE name=name
DeleteName(table, name) ==
    SelectSeq(table, LAMBDA n : n # name)

\* Mutant: the count copied from the location page, column unchanged.
CountCategory_ByLocation(name) ==
    Cardinality({i \in 1..Len(assets) : assets[i].location = name})

\* SELECT count(*) FROM assets WHERE category=?
CountCategory(name) ==
    Cardinality({i \in 1..Len(assets) : assets[i].category = name})

\* Mutant: the count copied from the category page, column unchanged.
CountLocation_ByCategory(name) ==
    Cardinality({i \in 1..Len(assets) : assets[i].category = name})

\* SELECT count(*) FROM assets WHERE location=?
CountLocation(name) ==
    Cardinality({i \in 1..Len(assets) : assets[i].location = name})

\* "In Stock" if qty > 0 else "Out of Stock"
StatusOf(qty) == IF qty > 0 THEN "In Stock" ELSE "Out of Stock"

\* c.execute('SELECT * FROM users WHERE username = ?'); c.fetchone()
\* The rows fetched: <<>> when fetchone() gives None, else <<user_data>>.
FetchUser(u) ==
    SelectSeq(users, LAMBDA r : r.username = u)

\* INSERT OR IGNORE INTO users ... ('admin', make_hashes('password123'), 'Admin')
init_db(table) ==
    IF \E i \in 1..Len(table) : table[i].username = "admin"
    THEN table
    ELSE Append(table, [username |-> "admin",
                        password |-> make_hashes("password123"),
                        role     |-> "Admin"])

\* menu, plus "User Management" for an Admin
Menu(r) ==
    {"Dashboard", "Manage Assets", "Category Settings",
     "Initial Location Settings", "Reports"}
    \cup (IF r = "Admin" THEN {"User Management"} ELSE {})

\* Feedback of one script run: who ran it and the message rendered.  A
\* st.rerun() after it runs the script once more as a plain page view,
\* which changes no table and no session state.
Show(s, m) == [session |-> s, msg |-> m]
NoMsg == <<>>

\* A page without a table and without a download button.
NoTable == [df |-> <<>>, download |-> None]

\* A session with no script run in progress. pc is the statement a run
\* followed statement by statement has reached; name, check, cat_list and
\* loc_list are the run's local variables (d_cat or d_loc, check, cat_list,
\* loc_list); msg is the feedback the session's last such run ended with.
Idle == [pc |-> "idle", name |-> None, check |-> 0, cat_list |-> <<>>,
         loc_list |-> <<>>, msg |-> NoMsg]

(* ------------------------------- Init ---------------------------------- *)

Init ==
    /\ assets = <<>>
    /\ sqlite_sequence = 0
    /\ categories = <<>>
    /\ locations = <<>>
    /\ users = init_db(<<>>)
    /\ logged_in = [s \in Sessions |-> FALSE]
    /\ role = [s \in Sessions |-> None]
    /\ username = [s \in Sessions |-> None]
    /\ shown = Show(0, NoMsg)
    /\ run = [s \in Sessions |-> Idle]
    /\ rendered = NoTable

(* --------------------------- login sidebar ----------------------------- *)

\* The sidebar's "Login" button, with the texts typed.
Login(s, u, p) ==
    /\ ~logged_in[s]
    /\ LET user_data == FetchUser(u)
       IN  IF user_data # <<>> /\ check_hashes(p, user_data[1].password)
           THEN /\ logged_in' = [logged_in EXCEPT ![s] = TRUE]
                /\ role' = [role EXCEPT ![s] = user_data[1].role]
                /\ username' = [username EXCEPT ![s] = u]
                /\ shown' = Show(s, NoMsg)
           ELSE /\ UNCHANGED session
                /\ shown' = Show(s, <<"Invalid Username/Password">>)
    /\ users' = init_db(users)
    /\ UNCHANGED <<assets, sqlite_sequence, categories, locations>>
    /\ UNCHANGED page

\* Mutant: a logout that resets logged_in only.
Logout_KeepsRole(s) ==
    /\ logged_in[s]
    /\ logged_in' = [logged_in EXCEPT ![s] = FALSE]
    /\ UNCHANGED <<role, username>>
    /\ shown' = Show(s, NoMsg)
    /\ users' = init_db(users)
    /\ UNCHANGED <<assets, sqlite_sequence, categories, locations>>
    /\ UNCHANGED page

\* The sidebar's "Logout" button.
Logout(s) ==
    /\ logged_in[s]
    /\ logged_in' = [logged_in EXCEPT ![s] = FALSE]
    /\ role' = [role EXCEPT ![s] = None]
    /\ UNCHANGED username
    /\ shown' = Show(s, NoMsg)
    /\ users' = init_db(users)
    /\ UNCHANGED <<assets, sqlite_sequence, categories, locations>>
    /\ UNCHANGED page

(* --------------------------- Manage Assets ----------------------------- *)

\* One row of the assets table.
AssetRow(id, name, serial, category, p_date, loc, status, qty) ==
    [id |-> id, name |-> name, serial |-> serial, category |-> category,
     purchase_date |-> p_date, location |-> loc, status |-> status,
     quantity |-> qty]

\* INSERT INTO assets (...) VALUES (...): a fresh id from the AUTOINCREMENT
\* counter, the row appended.
InsertAsset(name, serial, category, p_date, loc, status, qty) ==
    /\ sqlite_sequence' = sqlite_sequence + 1
    /\ assets' = Append(assets, AssetRow(sqlite_sequence + 1, name, serial,
                                         category, p_date, loc, status, qty))

\* Mutant: the UPDATE without status=?.
UpdateAssets_NoStatus(new_qty, new_loc, new_status, target) ==
    [i \in 1..Len(assets) |->
        IF assets[i].name = target
        THEN [assets[i] EXCEPT !.quantity = new_qty,
                               !.location = new_loc]
        ELSE assets[i]]

\* UPDATE assets SET quantity=?, location=?, status=? WHERE name=?
UpdateAssets(new_qty, new_loc, new_status, target) ==
    [i \in 1..Len(assets) |->
        IF assets[i].name = target
        THEN [assets[i] EXCEPT !.quantity = new_qty,
                               !.location = new_loc,
                               !.status   = new_status]
        ELSE assets[i]]

\* The options of st.selectbox("New Location", l_opts): the value is None
\* when the list is empty.
SelectFrom(options) ==
    IF options = <<>> THEN {None} ELSE Range(options)

\* The page with no button pressed: an Admin is warned when there is no
\* category or no location yet; a Viewer is shown no control at all.
ManageAssetsView(s) ==
    /\ logged_in[s]
    /\ "Manage Assets" \in Menu(role[s])
    /\ shown' = Show(s, IF role[s] = "Admin"
                           /\ (NameList(categories) = <<>>
                               \/ NameList(locations) = <<>>)
                        THEN <<"Please add Categories and Locations first!">>
                        ELSE NoMsg)
    /\ users' = init_db(users)
    /\ UNCHANGED <<assets, sqlite_sequence, categories, locations, session>>
    /\ UNCHANGED page

\* Mutant: the add form placed in the block Admin and Manager share.
SaveAsset_ManagerToo(s, name, serial, category, qty, loc, p_date) ==
    /\ logged_in[s]
    /\ "Manage Assets" \in Menu(role[s])
    /\ role[s] \in {"Admin", "Manager"}
    /\ NameList(categories) # <<>> /\ NameList(locations) # <<>>
    /\ category \in Range(NameList(categories))
    /\ loc \in Range(NameList(locations))
    /\ Len(assets) < MaxAssets
    /\ InsertAsset(name, serial, category, p_date, loc, StatusOf(qty), qty)
    /\ shown' = Show(s, <<"Added", name>>)
    /\ users' = init_db(users)
    /\ UNCHANGED <<categories, locations, session>>
    /\ UNCHANGED page

\* The add_form's "Save Asset" button.
SaveAsset(s, name, serial, category, qty, loc, p_date) ==
    /\ logged_in[s]
    /\ "Manage Assets" \in Menu(role[s])
    /\ role[s] = "Admin"
    /\ NameList(categories) # <<>> /\ NameList(locations) # <<>>
    /\ category \in Range(NameList(categories))
    /\ loc \in Range(NameList(locations))
    /\ Len(assets) < MaxAssets
    /\ InsertAsset(name, serial, category, p_date, loc, StatusOf(qty), qty)
    /\ shown' = Show(s, <<"Added", name>>)
    /\ users' = init_db(users)
    /\ UNCHANGED <<categories, locations, session>>
    /\ UNCHANGED page

\* The "Apply Changes" button.
ApplyChanges(s, target, new_qty, new_loc) ==
    /\ logged_in[s]
    /\ "Manage Assets" \in Menu(role[s])
    /\ role[s] \in {"Admin", "Manager"}
    /\ assets # <<>>
    /\ target \in {assets[i].name : i \in 1..Len(assets)}
    /\ new_loc \in SelectFrom(NameList(locations))
    /\ assets' = UpdateAssets(new_qty, new_loc, StatusOf(new_qty), target)
    /\ shown' = Show(s, <<"Updated!">>)
    /\ users' = init_db(users)
    /\ UNCHANGED <<sqlite_sequence, categories, locations, session>>
    /\ UNCHANGED page

(* ------------------------- Category Settings --------------------------- *)

\* The page for a role other than Admin.
CategorySettingsDenied(s) ==
    /\ logged_in[s]
    /\ "Category Settings" \in Menu(role[s])
    /\ role[s] # "Admin"
    /\ shown' = Show(s, <<"Admin Only.">>)
    /\ users' = init_db(users)
    /\ UNCHANGED <<assets, sqlite_sequence, categories, locations, session>>
    /\ UNCHANGED page

\* Mutant: the page without its role check.
SaveCategory_NoRoleCheck(s, n_cat) ==
    /\ logged_in[s]
    /\ "Category Settings" \in Menu(role[s])
    /\ IF n_cat # ""
       THEN /\ categories' = InsertOrIgnore(categories, n_cat)
            /\ shown' = Show(s, <<"Category Added!", n_cat>>)
       ELSE /\ UNCHANGED categories
            /\ shown' = Show(s, NoMsg)
    /\ users' = init_db(users)
    /\ UNCHANGED <<assets, sqlite_sequence, locations, session>>
    /\ UNCHANGED page

\* The "Save Category" button.
SaveCategory(s, n_cat) ==
    /\ logged_in[s]
    /\ "Category Settings" \in Menu(role[s])
    /\ role[s] = "Admin"
    /\ IF n_cat # ""
       THEN /\ categories' = InsertOrIgnore(categories, n_cat)
            /\ shown' = Show(s, <<"Category Added!", n_cat>>)
       ELSE /\ UNCHANGED categories
            /\ shown' = Show(s, NoMsg)
    /\ users' = init_db(users)
    /\ UNCHANGED <<assets, sqlite_sequence, locations, session>>
    /\ UNCHANGED page

\* The category "Update Name" button.  The UPDATE raises
\* sqlite3.IntegrityError, which nothing catches, when another row already
\* holds the new name.
UpdateCategoryName(s, old_c, ren_c) ==
    /\ logged_in[s]
    /\ "Category Settings" \in Menu(role[s])
    /\ role[s] = "Admin"
    /\ NameList(categories) # <<>>
    /\ old_c \in Range(NameList(categories))
    /\ IF ren_c = ""
       THEN /\ UNCHANGED categories
            /\ shown' = Show(s, NoMsg)
       ELSE IF ren_c # old_c /\ ~KeyFree(categories, ren_c)
       THEN /\ UNCHANGED categories
            /\ shown' = Show(s, <<"sqlite3.IntegrityError">>)
       ELSE /\ categories' = UpdateName(categories, ren_c, old_c)
            /\ shown' = Show(s, <<"Category Updated!">>)
    /\ users' = init_db(users)
    /\ UNCHANGED <<assets, sqlite_sequence, locations, session>>
    /\ UNCHANGED page

\* The "Delete Category" button.
DeleteCategory(s, d_cat) ==
    /\ logged_in[s]
    /\ "Category Settings" \in Menu(role[s])
    /\ role[s] = "Admin"
    /\ NameList(categories) # <<>>
    /\ d_cat \in Range(NameList(categories))
    /\ LET check == CountCategory(d_cat)
       IN  IF check = 0
           THEN /\ categories' = DeleteName(categories, d_cat)
                /\ shown' = Show(s, <<"Category Deleted!">>)
           ELSE /\ UNCHANGED categories
                /\ shown' = Show(s, <<"Cannot delete! Category is in use.", d_cat>>)
    /\ users' = init_db(users)
    /\ UNCHANGED <<assets, sqlite_sequence, locations, session>>
    /\ UNCHANGED page

(* --------------------- Initial Location Settings ----------------------- *)

\* The page for a role other than Admin.
LocationSettingsDenied(s) ==
    /\ logged_in[s]
    /\ "Initial Location Settings" \in Menu(role[s])
    /\ role[s] # "Admin"
    /\ shown' = Show(s, <<"Admin Only.">>)
    /\ users' = init_db(users)
    /\ UNCHANGED <<assets, sqlite_sequence, categories, locations, session>>
    /\ UNCHANGED page

\* The "Save Location" button.
SaveLocation(s, n_loc) ==
    /\ logged_in[s]
    /\ "Initial Location Settings" \in Menu(role[s])
    /\ role[s] = "Admin"
    /\ IF n_loc # ""
       THEN /\ locations' = InsertOrIgnore(locations, n_loc)
            /\ shown' = Show(s, <<"Location Added!", n_loc>>)
       ELSE /\ UNCHANGED locations
            /\ shown' = Show(s, NoMsg)
    /\ users' = init_db(users)
    /\ UNCHANGED <<assets, sqlite_sequence, categories, session>>
    /\ UNCHANGED page

\* The location "Update Name" button.
UpdateLocationName(s, old_l, ren_l) ==
    /\ logged_in[s]
    /\ "Initial Location Settings" \in Menu(role[s])
    /\ role[s] = "Admin"
    /\ NameList(locations) # <<>>
    /\ old_l \in Range(NameList(locations))
    /\ IF ren_l = ""
       THEN /\ UNCHANGED locations
            /\ shown' = Show(s, NoMsg)
       ELSE IF ren_l # old_l /\ ~KeyFree(locations, ren_l)
       THEN /\ UNCHANGED locations
            /\ shown' = Show(s, <<"sqlite3.IntegrityError">>)
       ELSE /\ locations' = UpdateName(locations, ren_l, old_l)
            /\ shown' = Show(s, <<"Location Updated!">>)
    /\ users' = init_db(users)
    /\ UNCHANGED <<assets, sqlite_sequence, categories, session>>
    /\ UNCHANGED page

\* The "Delete Location" button.
DeleteLocation(s, d_loc) ==
    /\ logged_in[s]
    /\ "Initial Location Settings" \in Menu(role[s])
    /\ role[s] = "Admin"
    /\ NameList(locations) # <<>>
    /\ d_loc \in Range(NameList(locations))
    /\ LET check == CountLocation(d_loc)
       IN  IF check = 0
           THEN /\ locations' = DeleteName(locations, d_loc)
                /\ shown' = Show(s, <<"Location Deleted!">>)
           ELSE /\ UNCHANGED locations
                /\ shown' = Show(s, <<"Cannot delete! Location is in use.", d_loc>>)
    /\ users' = init_db(users)
    /\ UNCHANGED <<assets, sqlite_sequence, categories, session>>
    /\ UNCHANGED page

(* --------------------------- User Management --------------------------- *)

\* INSERT INTO users VALUES (?,?,?): the row appended; the caller has
\* checked the PRIMARY KEY.
InsertUser(table, new_u, digest, new_r) ==
    Append(table, [username |-> new_u, password |-> digest, role |-> new_r])

\* Mutant: INSERT OR REPLACE INTO users, which overwrites an existing row.
CreateUser_OrReplace(s, new_u, new_p, new_r) ==
    /\ logged_in[s]
    /\ "User Management" \in Menu(role[s])
    /\ role[s] = "Admin"
    /\ LET table == init_db(users)
           kept  == SelectSeq(table, LAMBDA r : r.username # new_u)
       IN  /\ users' = InsertUser(kept, new_u, make_hashes(new_p), new_r)
           /\ shown' = Show(s, <<"User created!", new_u>>)
    /\ UNCHANGED <<assets, sqlite_sequence, categories, locations, session>>
    /\ UNCHANGED page

\* The user_form's "Create User" button; the bare except turns the
\* constraint failure into "User already exists".
CreateUser(s, new_u, new_p, new_r) ==
    /\ logged_in[s]
    /\ "User Management" \in Menu(role[s])
    /\ role[s] = "Admin"
    /\ LET table == init_db(users)
       IN  IF \A i \in 1..Len(table) : table[i].username # new_u
           THEN /\ users' = InsertUser(table, new_u, make_hashes(new_p), new_r)
                /\ shown' = Show(s, <<"User created!", new_u>>)
           ELSE /\ users' = table
                /\ shown' = Show(s, <<"User already exists">>)
    /\ UNCHANGED <<assets, sqlite_sequence, categories, locations, session>>
    /\ UNCHANGED page

(* ------------------------------- Next ---------------------------------- *)

\* pd.read_sql('SELECT * FROM assets') followed by the two df.loc
\* assignments that rewrite the status column of the DataFrame.
ReadAssets ==
    [i \in 1..Len(assets) |->
        [assets[i] EXCEPT !.status =
            IF assets[i].quantity = 0 THEN "Out of Stock"
            ELSE IF assets[i].quantity > 0 THEN "In Stock"
            ELSE assets[i].status]]

\* Series.str.contains(pat, case=False) on the texts the rows can hold.
StrContains(text, pat) ==
    CASE pat = "laptop" -> text \in {"Laptop-01"}
      [] pat = "it"     -> text \in {"IT Equipment", "Furniture"}
      [] OTHER          -> FALSE

\* Mutant: the low-stock mask with "<" for "<=".
LowStock_Strict(df) ==
    LET Low(row) == row.quantity < LowStockThreshold
    IN  SelectSeq(df, Low)

\* df_r[df_r['quantity'] <= 5]
LowStock(df) ==
    LET Low(row) == row.quantity <= LowStockThreshold
    IN  SelectSeq(df, Low)

\* The three filters of the Dashboard, applied in the order of the code.
DashboardFilter(df, search, status_filter, loc_filter) ==
    LET Found(row) == \/ StrContains(row.name, search)
                      \/ StrContains(row.serial, search)
                      \/ StrContains(row.category, search)
        HasStatus(row) == row.status \in status_filter
        IsThere(row) == row.location \in loc_filter
        df1 == IF search # "" THEN SelectSeq(df, Found) ELSE df
        df2 == IF status_filter # {} THEN SelectSeq(df1, HasStatus) ELSE df1
    IN  IF loc_filter # {} THEN SelectSeq(df2, IsThere) ELSE df2

\* Mutant: a Dashboard run that stores the filtered DataFrame as the
\* assets table.
Dashboard_WriteBack(s, search, status_filter, loc_filter) ==
    /\ logged_in[s]
    /\ "Dashboard" \in Menu(role[s])
    /\ assets # <<>>
    /\ loc_filter \subseteq Range(NameList(locations))
    /\ assets' = DashboardFilter(ReadAssets, search, status_filter, loc_filter)
    /\ rendered' = [df |-> assets', download |-> None]
    /\ shown' = Show(s, NoMsg)
    /\ users' = init_db(users)
    /\ UNCHANGED <<sqlite_sequence, categories, locations, session, run>>

\* A script run with "Dashboard" chosen in the navigation.
Dashboard(s, search, status_filter, loc_filter) ==
    /\ logged_in[s]
    /\ "Dashboard" \in Menu(role[s])
    /\ LET df == ReadAssets
       IN  IF df # <<>>
           THEN /\ loc_filter \subseteq Range(NameList(locations))
                /\ rendered' = [df |-> DashboardFilter(df, search,
                                            status_filter, loc_filter),
                                download |-> None]
                /\ shown' = Show(s, NoMsg)
           ELSE /\ search = "" /\ status_filter = {} /\ loc_filter = {}
                /\ rendered' = NoTable
                /\ shown' = Show(s, <<"Inventory is empty.">>)
    /\ users' = init_db(users)
    /\ UNCHANGED <<assets, sqlite_sequence, categories, locations, session,
                   run>>

\* A script run with "Reports" chosen in the navigation; ls is the value of
\* the "Select Location" box, None when the box is not on the page.
Reports(s, rep, ls) ==
    /\ logged_in[s]
    /\ "Reports" \in Menu(role[s])
    /\ LET df_r == ReadAssets
           lo == NameList(locations)
           There(row) == row.location = ls
       IN  IF df_r # <<>> /\ rep = "Location Report" /\ lo # <<>>
           THEN /\ ls \in Range(lo)
                /\ rendered' = [df |-> SelectSeq(df_r, There),
                                download |-> "location_report.csv"]
           ELSE IF df_r # <<>> /\ rep # "Location Report"
           THEN /\ ls = None
                /\ rendered' = [df |-> LowStock(df_r),
                                download |-> "low_stock_report.csv"]
           ELSE /\ ls = None
                /\ rendered' = NoTable
    /\ shown' = Show(s, NoMsg)
    /\ users' = init_db(users)
    /\ UNCHANGED <<assets, sqlite_sequence, categories, locations, session,
                   run>>

\* The "Delete Category" handler, one SQL statement at a time. Each session
\* has its own connection, a SELECT runs outside any transaction, and the
\* DELETE is committed by the conn.commit() that follows it.

\* SELECT name FROM categories for the "Remove Category" box, whose value
\* d_cat is one of the options read.
DeleteCategoryOptions(s, d_cat) ==
    /\ logged_in[s]
    /\ "Category Settings" \in Menu(role[s])
    /\ role[s] = "Admin"
    /\ run[s].pc = "idle"
    /\ NameList(categories) # <<>>
    /\ d_cat \in Range(NameList(categories))
    /\ run' = [run EXCEPT ![s] = [Idle EXCEPT !.pc = "delete_category",
                                              !.name = d_cat]]
    /\ users' = init_db(users)
    /\ UNCHANGED <<assets, sqlite_sequence, categories, locations, session,
                   shown, rendered>>

\* check = SELECT count(*) FROM assets WHERE category=?
DeleteCategoryCheck(s) ==
    /\ run[s].pc = "delete_category"
    /\ run' = [run EXCEPT ![s].pc = "delete_category_checked",
                          ![s].check = CountCategory(run[s].name)]
    /\ UNCHANGED <<assets, sqlite_sequence, categories, locations, users,
                   session, shown, rendered>>

\* if check == 0: DELETE, commit, toast; else: st.error
DeleteCategoryExecute(s) ==
    /\ run[s].pc = "delete_category_checked"
    /\ LET d_cat == run[s].name
           msg == IF run[s].check = 0
                  THEN <<"Category Deleted!">>
                  ELSE <<"Cannot delete! Category is in use.", d_cat>>
       IN  /\ categories' = IF run[s].check = 0
                            THEN DeleteName(categories, d_cat)
                            ELSE categories
           /\ shown' = Show(s, msg)
           /\ run' = [run EXCEPT ![s] = [Idle EXCEPT !.name = d_cat,
                                                     !.msg = msg]]
    /\ UNCHANGED <<assets, sqlite_sequence, locations, users, session,
                   rendered>>

\* The "Delete Location" handler, one SQL statement at a time.
DeleteLocationOptions(s, d_loc) ==
    /\ logged_in[s]
    /\ "Initial Location Settings" \in Menu(role[s])
    /\ role[s] = "Admin"
    /\ run[s].pc = "idle"
    /\ NameList(locations) # <<>>
    /\ d_loc \in Range(NameList(locations))
    /\ run' = [run EXCEPT ![s] = [Idle EXCEPT !.pc = "delete_location",
                                              !.name = d_loc]]
    /\ users' = init_db(users)
    /\ UNCHANGED <<assets, sqlite_sequence, categories, locations, session,
                   shown, rendered>>

DeleteLocationCheck(s) ==
    /\ run[s].pc = "delete_location"
    /\ run' = [run EXCEPT ![s].pc = "delete_location_checked",
                          ![s].check = CountLocation(run[s].name)]
    /\ UNCHANGED <<assets, sqlite_sequence, categories, locations, users,
                   session, shown, rendered>>

DeleteLocationExecute(s) ==
    /\ run[s].pc = "delete_location_checked"
    /\ LET d_loc == run[s].name
           msg == IF run[s].check = 0
                  THEN <<"Location Deleted!">>
                  ELSE <<"Cannot delete! Location is in use.", d_loc>>
       IN  /\ locations' = IF run[s].check = 0
                           THEN DeleteName(locations, d_loc)
                           ELSE locations
           /\ shown' = Show(s, msg)
           /\ run' = [run EXCEPT ![s] = [Idle EXCEPT !.name = d_loc,
                                                     !.msg = msg]]
    /\ UNCHANGED <<assets, sqlite_sequence, categories, users, session,
                   rendered>>

\* The "Add New Asset" form of an Admin's Manage Assets run, one SQL
\* statement at a time.

\* cat_list = SELECT name FROM categories
AddFormCategories(s) ==
    /\ logged_in[s]
    /\ "Manage Assets" \in Menu(role[s])
    /\ role[s] = "Admin"
    /\ run[s].pc = "idle"
    /\ run' = [run EXCEPT ![s] = [Idle EXCEPT !.pc = "add_form_categories",
                                              !.cat_list = NameList(categories)]]
    /\ users' = init_db(users)
    /\ UNCHANGED <<assets, sqlite_sequence, categories, locations, session,
                   shown, rendered>>

\* loc_list = SELECT name FROM locations; with an empty list the run ends
\* with the warning in place of the form.
AddFormLocations(s) ==
    /\ run[s].pc = "add_form_categories"
    /\ LET cat_list == run[s].cat_list
           loc_list == NameList(locations)
           msg == <<"Please add Categories and Locations first!">>
       IN  IF cat_list = <<>> \/ loc_list = <<>>
           THEN /\ shown' = Show(s, msg)
                /\ run' = [run EXCEPT ![s] = [Idle EXCEPT !.msg = msg]]
           ELSE /\ UNCHANGED shown
                /\ run' = [run EXCEPT ![s].pc = "add_form",
                                      ![s].loc_list = loc_list]
    /\ UNCHANGED <<assets, sqlite_sequence, categories, locations, users,
                   session, rendered>>

\* "Save Asset" pressed: the INSERT with the values of the form, category
\* and loc being options of the boxes built from cat_list and loc_list.
AddFormSubmit(s, name, serial, category, qty, loc, p_date) ==
    /\ run[s].pc = "add_form"
    /\ category \in Range(run[s].cat_list)
    /\ loc \in Range(run[s].loc_list)
    /\ Len(assets) < MaxAssets
    /\ InsertAsset(name, serial, category, p_date, loc, StatusOf(qty), qty)
    /\ shown' = Show(s, <<"Added", name>>)
    /\ run' = [run EXCEPT ![s] = [Idle EXCEPT !.name = name,
                                              !.msg = <<"Added", name>>]]
    /\ UNCHANGED <<categories, locations, users, session, rendered>>

\* The form is on the page and "Save Asset" was not pressed.
AddFormShown(s) ==
    /\ run[s].pc = "add_form"
    /\ shown' = Show(s, NoMsg)
    /\ run' = [run EXCEPT ![s] = Idle]
    /\ UNCHANGED <<assets, sqlite_sequence, categories, locations, users,
                   session, rendered>>

\* The script runs of session s that touch the credential store or the
\* session state.
ActAuth(s) ==
    \/ \E u \in UsernameInputs, p \in PasswordInputs : Login(s, u, p)
    \/ Logout(s)
    \/ \E new_u \in UsernameInputs, new_p \in PasswordInputs, new_r \in Roles :
            CreateUser(s, new_u, new_p, new_r)

\* The script runs of a logged-in session s on the pages behind the login.
ActInventory(s) ==
    \/ ManageAssetsView(s)
    \/ \E name \in AssetNames, serial \in Serials, qty \in Quantities,
          p_date \in Dates, category \in CategoryInputs, loc \in LocationInputs :
            SaveAsset(s, name, serial, category, qty, loc, p_date)
    \/ \E target \in AssetNames, new_qty \in Quantities,
          new_loc \in LocationInputs \cup {None} :
            ApplyChanges(s, target, new_qty, new_loc)
    \/ CategorySettingsDenied(s)
    \/ \E n_cat \in CategoryInputs : SaveCategory(s, n_cat)
    \/ \E old_c \in CategoryInputs, ren_c \in CategoryInputs :
            UpdateCategoryName(s, old_c, ren_c)
    \/ \E d_cat \in CategoryInputs : DeleteCategory(s, d_cat)
    \/ LocationSettingsDenied(s)
    \/ \E n_loc \in LocationInputs : SaveLocation(s, n_loc)
    \/ \E old_l \in LocationInputs, ren_l \in LocationInputs :
            UpdateLocationName(s, old_l, ren_l)
    \/ \E d_loc \in LocationInputs : DeleteLocation(s, d_loc)
    \/ \E new_u \in UsernameInputs, new_p \in PasswordInputs, new_r \in Roles :
            CreateUser(s, new_u, new_p, new_r)

\* The script runs of a logged-in session s on the two pages that only
\* read: the Dashboard and the Reports.
ActReports(s) ==
    \/ \E search \in SearchInputs, status_filter \in SUBSET StatusOptions,
          loc_filter \in SUBSET (LocationInputs \ {""}) :
            Dashboard(s, search, status_filter, loc_filter)
    \/ \E rep \in ReportTypes, ls \in LocationInputs \cup {None} :
            Reports(s, rep, ls)

\* The whole program: any session makes any script run.
Next == \E s \in Sessions : ActAuth(s) \/ ActInventory(s) \/ ActReports(s)

Spec == Init /\ [][Next]_vars

\* The credential store and the login sidebar alone, from the state after
\* construction: the inventory tables stay as init_db() leaves them.
NextAuth == \E s \in Sessions : ActAuth(s)

SpecAuth == Init /\ [][NextAuth]_vars

\* The login sidebar, User Management and the Category Settings page, from
\* the state after construction: sessions that are logged out next to
\* sessions that are logged in, and a table for them to write.
ActCategorySettings(s) ==
    \/ CategorySettingsDenied(s)
    \/ \E n_cat \in CategoryInputs : SaveCategory(s, n_cat)
    \/ \E old_c \in CategoryInputs, ren_c \in CategoryInputs :
            UpdateCategoryName(s, old_c, ren_c)
    \/ \E d_cat \in CategoryInputs : DeleteCategory(s, d_cat)

NextGate == \E s \in Sessions : ActAuth(s) \/ ActCategorySettings(s)

SpecGate == Init /\ [][NextGate]_vars

\* The pages behind the login, from the states SpecAuth reaches once the
\* seeded admin has created user "bob" and every session has logged in:
\* session 1 as admin, the others as bob.
InitInventory ==
    /\ assets = <<>>
    /\ sqlite_sequence = 0
    /\ categories = <<>>
    /\ locations = <<>>
    /\ \E r \in Roles :
         users = InsertUser(init_db(<<>>), "bob", make_hashes("letmein"), r)
    /\ logged_in = [s \in Sessions |-> TRUE]
    /\ username = [s \in Sessions |-> IF s = 1 THEN "admin" ELSE "bob"]
    /\ role = [s \in Sessions |-> FetchUser(username[s])[1].role]
    /\ shown = Show(0, NoMsg)
    /\ run = [s \in Sessions |-> Idle]
    /\ rendered = NoTable

NextInventory == \E s \in Sessions : ActInventory(s)

SpecInventory == InitInventory /\ [][NextInventory]_vars

\* The two settings pages with a third name to type on each, from the
\* states SpecInventory reaches when the admin has saved one category, one
\* location and one asset in them.
MoreCategoryInputs == CategoryInputs \cup {"Vehicles"}
MoreLocationInputs == LocationInputs \cup {"Site B"}

InitSettings ==
    /\ categories = <<"IT Equipment">>
    /\ locations = <<"Warehouse 1">>
    /\ \E qty \in Quantities :
         assets = <<AssetRow(1, "Laptop-01", "SN123", "IT Equipment",
                             "2024-01-01", "Warehouse 1", StatusOf(qty),
                             qty)>>
    /\ sqlite_sequence = 1
    /\ \E r \in Roles :
         users = InsertUser(init_db(<<>>), "bob", make_hashes("letmein"), r)
    /\ logged_in = [s \in Sessions |-> TRUE]
    /\ username = [s \in Sessions |-> IF s = 1 THEN "admin" ELSE "bob"]
    /\ role = [s \in Sessions |-> FetchUser(username[s])[1].role]
    /\ shown = Show(1, <<"Added", "Laptop-01">>)
    /\ run = [s \in Sessions |-> Idle]
    /\ rendered = NoTable

ActSettings(s) ==
    \/ CategorySettingsDenied(s)
    \/ \E n_cat \in MoreCategoryInputs : SaveCategory(s, n_cat)
    \/ \E old_c \in MoreCategoryInputs, ren_c \in MoreCategoryInputs :
            UpdateCategoryName(s, old_c, ren_c)
    \/ \E d_cat \in MoreCategoryInputs : DeleteCategory(s, d_cat)
    \/ LocationSettingsDenied(s)
    \/ \E n_loc \in MoreLocationInputs : SaveLocation(s, n_loc)
    \/ \E old_l \in MoreLocationInputs, ren_l \in MoreLocationInputs :
            UpdateLocationName(s, old_l, ren_l)
    \/ \E d_loc \in MoreLocationInputs : DeleteLocation(s, d_loc)

NextSettings == \E s \in Sessions : ActSettings(s)

SpecSettings == InitSettings /\ [][NextSettings]_vars

\* The pages behind the login without the two rename forms, every handler
\* run as one step, from the states InitInventory describes.
ActNoRename(s) ==
    \/ ManageAssetsView(s)
    \/ \E name \in AssetNames, serial \in Serials, qty \in Quantities,
          p_date \in Dates, category \in CategoryInputs, loc \in LocationInputs :
            SaveAsset(s, name, serial, category, qty, loc, p_date)
    \/ \E target \in AssetNames, new_qty \in Quantities,
          new_loc \in LocationInputs \cup {None} :
            ApplyChanges(s, target, new_qty, new_loc)
    \/ CategorySettingsDenied(s)
    \/ \E n_cat \in CategoryInputs : SaveCategory(s, n_cat)
    \/ \E d_cat \in CategoryInputs : DeleteCategory(s, d_cat)
    \/ LocationSettingsDenied(s)
    \/ \E n_loc \in LocationInputs : SaveLocation(s, n_loc)
    \/ \E d_loc \in LocationInputs : DeleteLocation(s, d_loc)

NextNoRename == \E s \in Sessions : ActNoRename(s)

SpecNoRename == InitInventory /\ [][NextNoRename]_vars

\* A ledger that the pages behind the login have filled: both lists hold
\* their two names, up to MaxReportAssets assets are stored with
\* quantities on both sides of the low-stock threshold, two of them under
\* one name or not, and the sessions are logged in as in InitInventory.
InitLedger ==
    /\ categories = <<"IT Equipment", "Furniture">>
    /\ locations = <<"Warehouse 1", "Office">>
    /\ \E n \in 0..MaxReportAssets :
         \E name \in [1..n -> AssetNames], category \in [1..n -> {"IT Equipment", "Furniture"}],
            loc \in [1..n -> {"Warehouse 1", "Office"}],
            qty \in [1..n -> ReportQuantities] :
            /\ assets = [i \in 1..n |->
                            AssetRow(i, name[i], "SN123", category[i],
                                     "2024-01-01", loc[i], StatusOf(qty[i]),
                                     qty[i])]
            /\ sqlite_sequence = n
    /\ \E r \in Roles :
         users = InsertUser(init_db(<<>>), "bob", make_hashes("letmein"), r)
    /\ logged_in = [s \in Sessions |-> TRUE]
    /\ username = [s \in Sessions |-> IF s = 1 THEN "admin" ELSE "bob"]
    /\ role = [s \in Sessions |-> FetchUser(username[s])[1].role]
    /\ shown = Show(0, NoMsg)
    /\ run = [s \in Sessions |-> Idle]
    /\ rendered = NoTable

NextReports == \E s \in Sessions : ActReports(s)

SpecReports == InitLedger /\ [][NextReports]_vars

\* The "Update Stock / Location" form on the same ledgers.
ActUpdate(s) ==
    \/ ManageAssetsView(s)
    \/ \E target \in AssetNames, new_qty \in Quantities,
          new_loc \in LocationInputs \cup {None} :
            ApplyChanges(s, target, new_qty, new_loc)

NextUpdate == \E s \in Sessions : ActUpdate(s)

SpecUpdate == InitLedger /\ [][NextUpdate]_vars

\* Asset create and category / location remove alone, one SQL statement
\* at a time and interleaved between the sessions, from the state
\* SpecInventory reaches when the admin has added one category and one
\* location and has made bob an Admin.
InitStatements ==
    /\ categories = <<"IT Equipment">>
    /\ locations = <<"Warehouse 1">>
    /\ assets = <<>>
    /\ sqlite_sequence = 0
    /\ users = InsertUser(init_db(<<>>), "bob", make_hashes("letmein"), "Admin")
    /\ logged_in = [s \in Sessions |-> TRUE]
    /\ username = [s \in Sessions |-> IF s = 1 THEN "admin" ELSE "bob"]
    /\ role = [s \in Sessions |-> FetchUser(username[s])[1].role]
    /\ shown = Show(1, <<"Location Added!", "Warehouse 1">>)
    /\ run = [s \in Sessions |-> Idle]
    /\ rendered = NoTable

ActStatements(s) ==
    \/ \E d_cat \in CategoryInputs : DeleteCategoryOptions(s, d_cat)
    \/ DeleteCategoryCheck(s)
    \/ DeleteCategoryExecute(s)
    \/ \E d_loc \in LocationInputs : DeleteLocationOptions(s, d_loc)
    \/ DeleteLocationCheck(s)
    \/ DeleteLocationExecute(s)
    \/ AddFormCategories(s)
    \/ AddFormLocations(s)
    \/ \E name \in AssetNames, serial \in Serials, qty \in Quantities,
          p_date \in Dates, category \in CategoryInputs, loc \in LocationInputs :
            AddFormSubmit(s, name, serial, category, qty, loc, p_date)
    \/ AddFormShown(s)

NextStatements == \E s \in Sessions : ActStatements(s)

SpecStatements == InitStatements /\ [][NextStatements]_vars

(* ------------------------------ claims --------------------------------- *)

\* The rows of a name table that hold name n.
Occurrences(table, n) == {i \in 1..Len(table) : table[i] = n}

\* The stored assets whose category / location column holds name n.
AssetsInCategory(n) == {i \in 1..Len(assets) : assets[i].category = n}
AssetsInLocation(n) == {i \in 1..Len(assets) : assets[i].location = n}

\* C1: in every reachable state every stored asset has status "Out of Stock"
\* exactly when its quantity is 0 and "In Stock" otherwise; as each write is
\* one statement, no state shows a quantity without its re-derived status.
C1_StatusFollowsQuantity ==
    \A i \in 1..Len(assets) :
        /\ (assets[i].status = "Out of Stock") <=> (assets[i].quantity = 0)
        /\ (assets[i].status = "In Stock") <=> (assets[i].quantity # 0)

\* C1 witness: an update has just set a stored asset's quantity to 0.
C1_Witness ==
    /\ shown.msg = <<"Updated!">>
    /\ \E i \in 1..Len(assets) :
          assets[i].quantity = 0 /\ assets[i].status = "Out of Stock"

\* C2: a "Delete Category" / "Delete Location" run on a name that some
\* stored asset references shows the in-use message and leaves the
\* categories, locations and assets tables as they were, the name still
\* listed.
C2_RemoveInUseRefused ==
    [][/\ \A s \in Sessions, c \in CategoryInputs :
            (AssetsInCategory(c) # {} /\ DeleteCategory(s, c)) =>
                /\ UNCHANGED <<categories, locations, assets>>
                /\ shown' = Show(s, <<"Cannot delete! Category is in use.", c>>)
                /\ c \in Range(NameList(categories'))
       /\ \A s \in Sessions, l \in LocationInputs :
            (AssetsInLocation(l) # {} /\ DeleteLocation(s, l)) =>
                /\ UNCHANGED <<categories, locations, assets>>
                /\ shown' = Show(s, <<"Cannot delete! Location is in use.", l>>)
                /\ l \in Range(NameList(locations'))
      ]_vars

\* C2 witness: the in-use message for a listed category an asset references.
C2_Witness ==
    \E c \in CategoryInputs :
        /\ shown.msg = <<"Cannot delete! Category is in use.", c>>
        /\ c \in Range(categories)
        /\ AssetsInCategory(c) # {}

\* C3: a "Delete Category" / "Delete Location" run by an Admin on a listed
\* name no stored asset references succeeds: the name is gone from the
\* list, every other name is still there exactly once, nothing else changes.
C3_RemoveUnusedSucceeds ==
    [][/\ \A s \in Sessions, c \in CategoryInputs :
            (AssetsInCategory(c) = {} /\ DeleteCategory(s, c)) =>
                /\ role[s] = "Admin"
                /\ shown' = Show(s, <<"Category Deleted!">>)
                /\ c \notin Range(NameList(categories'))
                /\ \A n \in Range(categories) \ {c} :
                      Cardinality(Occurrences(categories', n)) = 1
                /\ Range(categories') \subseteq Range(categories)
                /\ UNCHANGED <<locations, assets>>
       /\ \A s \in Sessions, l \in LocationInputs :
            (AssetsInLocation(l) = {} /\ DeleteLocation(s, l)) =>
                /\ role[s] = "Admin"
                /\ shown' = Show(s, <<"Location Deleted!">>)
                /\ l \notin Range(NameList(locations'))
                /\ \A n \in Range(locations) \ {l} :
                      Cardinality(Occurrences(locations', n)) = 1
                /\ Range(locations') \subseteq Range(locations)
                /\ UNCHANGED <<categories, assets>>
      ]_vars

\* C3 witness: a category was just deleted and another one is still listed
\* while an asset is stored.
C3_Witness ==
    /\ shown.msg = <<"Category Deleted!">>
    /\ categories # <<>>
    /\ assets # <<>>

\* What a run shows a role that may not use the page: the denial message,
\* or nothing at all where the controls are hidden.
DeniedMsgs == {<<"Admin Only.">>, NoMsg}

\* C4: no script run of a session whose role is Viewer changes the assets,
\* categories, locations or users tables; the run shows "Admin Only." or
\* no control.
C4_ViewerChangesNothing ==
    [][\A s \in Sessions :
            (role[s] = "Viewer" /\ ActInventory(s)) =>
                /\ UNCHANGED <<assets, sqlite_sequence, categories,
                               locations, users>>
                /\ shown'.msg \in DeniedMsgs
      ]_vars

\* C4 witness: a Viewer session was just shown "Admin Only." while the
\* tables hold rows it could have changed.
C4_Witness ==
    /\ shown.session \in Sessions
    /\ role[shown.session] = "Viewer"
    /\ shown.msg = <<"Admin Only.">>
    /\ assets # <<>>
    /\ categories # <<>>

\* C5: a script run of a session whose role is Manager never changes the
\* categories, locations or users tables, never inserts or deletes an asset
\* row, and changes at most the quantity, location and status of asset
\* rows, the status being the one derived from the new quantity.
C5_ManagerOnlyUpdates ==
    [][\A s \in Sessions :
            (role[s] = "Manager" /\ ActInventory(s)) =>
                /\ UNCHANGED <<sqlite_sequence, categories, locations, users>>
                /\ Len(assets') = Len(assets)
                /\ \A i \in 1..Len(assets) :
                      /\ assets'[i] = [assets[i] EXCEPT
                                          !.quantity = assets'[i].quantity,
                                          !.location = assets'[i].location,
                                          !.status   = assets'[i].status]
                      /\ assets'[i].status = "Out of Stock"
                            <=> assets'[i].quantity = 0
      ]_vars

\* C5 witness: a Manager session has just applied an update.
C5_Witness ==
    /\ shown.session \in Sessions
    /\ role[shown.session] = "Manager"
    /\ shown.msg = <<"Updated!">>

\* C6: whenever an asset is stored and an Admin is logged in, some script
\* run of the program removes a record from the ledger (after which a
\* category it alone referenced can be removed).
C6_AdminCanDeleteAsset ==
    (assets # <<>> /\ \E s \in Sessions : logged_in[s] /\ role[s] = "Admin")
        => ENABLED (Next /\ Len(assets') < Len(assets))

\* The rows of users that hold username u.
UserRows(table, u) == {i \in 1..Len(table) : table[i].username = u}

\* C7: a "Login" run logs the session in, with the stored role, exactly
\* when the username has a row whose digest is the digest of the password
\* typed; admin/password123 gives role Admin; every other attempt, unknown
\* username or wrong password alike, shows the same message and leaves the
\* session logged out with no role.
C7_LoginIffDigestMatches ==
    [][\A s \in Sessions, u \in UsernameInputs, p \in PasswordInputs :
            Login(s, u, p) =>
                LET match == {i \in UserRows(users, u) :
                                users[i].password = make_hashes(p)}
                IN  /\ logged_in'[s] <=> match # {}
                    /\ match # {} =>
                          /\ \E i \in match : role'[s] = users[i].role
                          /\ username'[s] = u
                    /\ (u = "admin" /\ p = "password123") =>
                          logged_in'[s] /\ role'[s] = "Admin"
                    /\ match = {} =>
                          /\ shown' = Show(s, <<"Invalid Username/Password">>)
                          /\ ~logged_in'[s]
                          /\ role'[s] = None
      ]_vars

\* C7 witness: one session is logged in as Admin and another was just
\* refused while user bob exists.
C7_Witness ==
    /\ \E s \in Sessions : logged_in[s] /\ role[s] = "Admin"
    /\ shown.session \in Sessions
    /\ shown.msg = <<"Invalid Username/Password">>
    /\ ~logged_in[shown.session]
    /\ role[shown.session] = None
    /\ UserRows(users, "bob") # {}

\* C8: a session that is not logged in holds neither a role nor a username.
C8_LoggedOutHoldsNothing ==
    \A s \in Sessions :
        ~logged_in[s] => (role[s] = None /\ username[s] = None)

\* C9: a "Save Category" / "Save Location" run with a name already listed
\* leaves the list unchanged and shows the same toast as a first add; after
\* a run with a non-empty name the list holds that name exactly once; no
\* reachable list holds a name twice.
C9_AddIdempotent ==
    [][/\ \A n \in CategoryInputs :
            Cardinality(Occurrences(categories', n)) <= 1
       /\ \A n \in LocationInputs :
            Cardinality(Occurrences(locations', n)) <= 1
       /\ \A s \in Sessions, n \in CategoryInputs \ {""} :
            SaveCategory(s, n) =>
                /\ Cardinality(Occurrences(categories', n)) = 1
                /\ shown' = Show(s, <<"Category Added!", n>>)
                /\ n \in Range(categories) => categories' = categories
       /\ \A s \in Sessions, n \in LocationInputs \ {""} :
            SaveLocation(s, n) =>
                /\ Cardinality(Occurrences(locations', n)) = 1
                /\ shown' = Show(s, <<"Location Added!", n>>)
                /\ n \in Range(locations) => locations' = locations
      ]_vars

\* C9 witness: the add toast for a category that an asset already
\* references, the list holding that one name.
C9_Witness ==
    \E n \in CategoryInputs :
        /\ shown.msg = <<"Category Added!", n>>
        /\ categories = <<n>>
        /\ AssetsInCategory(n) # {}

\* C10: a "Create User" run with a username that has a row shows "User
\* already exists" and leaves the users table as it was; with a new
\* username it appends one row holding that username, the digest of the
\* password and the role, and changes no other row.
C10_CreateUser ==
    [][\A s \in Sessions, u \in UsernameInputs, p \in PasswordInputs,
          r \in Roles :
            CreateUser(s, u, p, r) =>
                IF UserRows(users, u) # {}
                THEN /\ users' = users
                     /\ shown' = Show(s, <<"User already exists">>)
                ELSE /\ Len(users') = Len(users) + 1
                     /\ SubSeq(users', 1, Len(users)) = users
                     /\ users'[Len(users')] =
                          [username |-> u, password |-> make_hashes(p),
                           role |-> r]
                     /\ Cardinality(UserRows(users', u)) = 1
                     /\ shown' = Show(s, <<"User created!", u>>)
      ]_vars

\* C10 witness: a duplicate was just refused and the table holds the
\* seeded admin and one created user.
C10_Witness ==
    /\ shown.msg = <<"User already exists">>
    /\ Len(users) = 2
    /\ users[1].username = "admin"
    /\ users[1].password = make_hashes("password123")
    /\ users[1].role = "Admin"

\* C15: every stored asset has a non-empty name and a quantity of at
\* least 0 (a "Save Asset" run with an empty name inserts no row).
C15_StoredAssetsValid ==
    \A i \in 1..Len(assets) :
        /\ assets[i].name # ""
        /\ assets[i].quantity >= 0

\* C17: an "Update Category Name" or "Update Location Name" run that
\* renames a listed name to a non-empty name the list does not hold puts
\* the new name in the old one's place, leaves every other entry of the
\* list as it was, and leaves the assets table as it was, so an asset
\* that referenced the old name still holds the old name.
C17_RenameInPlace ==
    [][/\ \A s \in Sessions, old \in MoreCategoryInputs,
             new \in MoreCategoryInputs \ {""} :
            ( /\ UpdateCategoryName(s, old, new)
              /\ Occurrences(categories, old) # {}
              /\ Occurrences(categories, new) = {} ) =>
                /\ Len(categories') = Len(categories)
                /\ \A i \in 1..Len(categories) :
                     categories'[i] =
                        IF i \in Occurrences(categories, old)
                        THEN new ELSE categories[i]
                /\ assets' = assets
                /\ AssetsInCategory(old)' = AssetsInCategory(old)
                /\ shown' = Show(s, <<"Category Updated!">>)
       /\ \A s \in Sessions, old \in MoreLocationInputs,
             new \in MoreLocationInputs \ {""} :
            ( /\ UpdateLocationName(s, old, new)
              /\ Occurrences(locations, old) # {}
              /\ Occurrences(locations, new) = {} ) =>
                /\ Len(locations') = Len(locations)
                /\ \A i \in 1..Len(locations) :
                     locations'[i] =
                        IF i \in Occurrences(locations, old)
                        THEN new ELSE locations[i]
                /\ assets' = assets
                /\ AssetsInLocation(old)' = AssetsInLocation(old)
                /\ shown' = Show(s, <<"Location Updated!">>)
      ]_vars

\* C17 witness: a category was just renamed while the list holds a second
\* name, and the stored asset still references a name the list no longer
\* holds.
C17_Witness ==
    /\ shown.msg = <<"Category Updated!">>
    /\ Len(categories) = 2
    /\ assets # <<>>
    /\ Occurrences(categories, assets[1].category) = {}

\* C18: when no rename is run and every handler runs as one step, every
\* stored asset's category is in the category list and its location is in
\* the location list, after any sequence of category / location add and
\* remove and asset create and update.
C18_ReferentialIntegrity ==
    \A i \in 1..Len(assets) :
        /\ Occurrences(categories, assets[i].category) # {}
        /\ Occurrences(locations, assets[i].location) # {}

\* C18 witness: a location was just removed while an asset is stored; the
\* one location and the one category left are the asset's.
C18_Witness ==
    /\ shown.msg = <<"Location Deleted!">>
    /\ assets # <<>>
    /\ locations = <<assets[1].location>>
    /\ categories = <<assets[1].category>>

\* C19: in every state a session's role is set exactly when it is logged
\* in, and a script run of a session that is not logged in leaves the
\* assets, categories, locations and users tables and every other
\* session's state as they were; it changes its own session state only by
\* logging in.
C19_LoggedOutChangesNothing ==
    [][/\ \A s \in Sessions :
            /\ logged_in[s] <=> role[s] # None
            /\ logged_in'[s] <=> role'[s] # None
       /\ \A s \in Sessions :
            (~logged_in[s] /\ (ActAuth(s) \/ ActInventory(s))) =>
                /\ UNCHANGED <<assets, sqlite_sequence, categories,
                               locations, users>>
                /\ \A t \in Sessions \ {s} :
                     /\ logged_in'[t] = logged_in[t]
                     /\ role'[t] = role[t]
                     /\ username'[t] = username[t]
                /\ \/ /\ logged_in'[s] = logged_in[s]
                      /\ role'[s] = role[s]
                      /\ username'[s] = username[s]
                   \/ /\ logged_in'[s]
                      /\ UserRows(users, username'[s]) # {}
      ]_vars

\* C19 witness: a session that is not logged in was just refused while
\* another session is logged in and the categories table holds a name.
C19_Witness ==
    /\ shown.session \in Sessions
    /\ shown.msg = <<"Invalid Username/Password">>
    /\ ~logged_in[shown.session]
    /\ role[shown.session] = None
    /\ \E t \in Sessions : logged_in[t] /\ role[t] = "Admin"
    /\ categories # <<>>

\* C13: a Reports run with "Low Stock Alert (<= 5)" chosen puts on the
\* page exactly the stored assets whose quantity is at most 5, each once
\* and as stored: every asset with quantity <= 5 is among the rows and no
\* asset with quantity > 5 is, whatever the ledger holds.
C13_LowStockExact ==
    [][\A s \in Sessions :
            Reports(s, "Low Stock Alert (<= 5)", None) =>
                /\ \A i \in 1..Len(assets) :
                     (assets[i].quantity <= 5) <=>
                        (\E j \in 1..Len(rendered'.df) :
                            rendered'.df[j] = assets[i])
                /\ \A j \in 1..Len(rendered'.df) :
                     /\ rendered'.df[j] \in Range(assets)
                     /\ \A k \in 1..Len(rendered'.df) :
                          rendered'.df[k].id = rendered'.df[j].id => k = j
      ]_vars

\* C13 witness: the low-stock report is on the page with the one stored
\* asset of quantity 5, and the other stored asset, of quantity 6, is not
\* on it.
C13_Witness ==
    /\ rendered.download = "low_stock_report.csv"
    /\ Len(assets) = 2
    /\ Len(rendered.df) = 1
    /\ rendered.df[1].quantity = 5
    /\ \E i \in 1..Len(assets) : assets[i].quantity = 6

\* C14: a Dashboard run with any search text, status filter and location
\* filter, and a Reports run of either type, by a session of any role,
\* leaves the assets, categories, locations and users tables as they were:
\* the status the run derives goes into the rows it shows only.
C14_ReadOnlyViews ==
    [][\/ UNCHANGED <<assets, sqlite_sequence, categories, locations, users>>
       \/ ~ \E s \in Sessions : ActReports(s)
      ]_vars

\* C14 witness: a Viewer's Dashboard run has filtered a stored row out of
\* the table on the page, and the ledger still holds both rows.
C14_Witness ==
    /\ shown.session \in Sessions
    /\ role[shown.session] = "Viewer"
    /\ rendered.download = None
    /\ Len(rendered.df) = 1
    /\ Len(assets) = 2

\* C16: an "Apply Changes" run for the name target writes the quantity,
\* location and status of one stored asset, the selected one, and leaves
\* every other stored asset, and the id, name, serial, category and
\* purchase_date of the written one, as they were, also when several
\* stored assets have the name target.
C16_UpdateOneAsset ==
    [][\A s \in Sessions, target \in AssetNames, new_qty \in Quantities,
          new_loc \in LocationInputs \cup {None} :
            ApplyChanges(s, target, new_qty, new_loc) =>
                /\ Len(assets') = Len(assets)
                /\ \E k \in 1..Len(assets) :
                     /\ assets[k].name = target
                     /\ assets'[k] = [assets[k] EXCEPT
                                        !.quantity = new_qty,
                                        !.location = new_loc,
                                        !.status = StatusOf(new_qty)]
                     /\ \A i \in 1..Len(assets) \ {k} :
                          assets'[i] = assets[i]
      ]_vars

\* C11: two sessions that remove the same category name, or the same
\* location name, at the same time do not both pass the zero-reference
\* check and both end with the delete reported: no two sessions hold the
\* "Deleted!" toast for one name that was stored once.
C11_RemoveOnce ==
    \A s \in Sessions : \A t \in Sessions \ {s} :
        ~ /\ run[s].msg \in {<<"Category Deleted!">>, <<"Location Deleted!">>}
          /\ run[t].msg = run[s].msg
          /\ run[t].name = run[s].name

\* C12: under every interleaving of asset create with category / location
\* remove, the INSERT of an asset happens only while its category is in the
\* categories table and its location is in the locations table, and after
\* every step each stored asset's category and location are listed.
C12_CreateSeesLists ==
    [][/\ \A s \in Sessions, name \in AssetNames, serial \in Serials,
             qty \in Quantities, p_date \in Dates,
             category \in CategoryInputs, loc \in LocationInputs :
            AddFormSubmit(s, name, serial, category, qty, loc, p_date) =>
                /\ category \in Range(categories)
                /\ loc \in Range(locations)
       /\ \A i \in 1..Len(assets') :
            /\ assets'[i].category \in Range(categories')
            /\ assets'[i].location \in Range(locations')
      ]_vars

====
